---- MODULE Spec2Model ----
(***************************************************************************)
(* Model of the PDF service of p1608a/webpage                              *)
(* (src/server/services/pdfService.js).                                    *)
(*                                                                         *)
(* Part 1: splitPDF and its page-range resolver.  A request carries an     *)
(* uploaded file and the options {pages, mode}; splitPDF loads the file,   *)
(* builds the page selection and copies the selected pages into a new      *)
(* document that is written to the output directory.                       *)
(*                                                                         *)
(* Part 2: rotatePDF, which reads the same page expression its own way.   *)
(*                                                                         *)
(* Part 3: compressPDF and its /compress route: one recompression pass at  *)
(* the pair of the quality tier, or up to five passes towards a target     *)
(* size.  The size sharp and pdf-lib give an attempt is not computed here:  *)
(* it is any of a few sizes when an image was re-encoded, and the size of   *)
(* the repacked document when none was.                                    *)
(*                                                                         *)
(* Strings are sequences of one-character strings.  A JavaScript number    *)
(* is a record [nan, v]: parseInt yields NaN for text with no leading      *)
(* digits and every comparison with NaN is false.                          *)
(***************************************************************************)
EXTENDS Integers, Sequences, FiniteSets, TLC

VARIABLES file, options, pc, totalPages, pageIndices, result, written

\* rotatePDF: the rotation angle of each page of the loaded document
VARIABLES rotation

\* compressPDF: the request, the locals of the function, the calls of
\* performCompression made so far, and the file written
VARIABLES request, doc, copts, cpc, targetSize, quality, resizeRatio, attempt,
          calls, compressedBytes, cresult, cwritten

\* an upload route (/merge, /protect) and the service it calls: the request,
\* its uploaded temporary files, the position of the handler, the uploads
\* directory, the status sent, what the service did, and how it ended
VARIABLES hreq, reqFiles, hpc, uploadsDir, response, trace, sresult

\* the output directory under concurrent requests and the download route:
\* the entries of the directory, the identifiers uuidv4 has given out, the
\* requests in progress, and the download request
VARIABLES outputDir, issued, jobs, download

\* FileUploader (browser side): its fields, and the last call made on it
VARIABLES files, maxFiles, acceptedTypes, lastOp

routeVars == <<hreq, reqFiles, hpc, uploadsDir, response, trace, sresult>>

storeVars == <<outputDir, issued, jobs, download>>

uploaderVars == <<files, maxFiles, acceptedTypes, lastOp>>

laterVars == <<routeVars, storeVars, uploaderVars>>

splitVars == <<file, options, pc, totalPages, pageIndices, result, written>>

rotateVars == <<rotation>>

compressVars == <<request, doc, copts, cpc, targetSize, quality, resizeRatio, attempt,
                  calls, compressedBytes, cresult, cwritten>>

vars == <<splitVars, rotateVars, compressVars, laterVars>>

(***************************************************************************)
(* Bounds of the explored inputs.                                          *)
(***************************************************************************)
\* longest page expression enumerated exhaustively over Alphabet
MaxLen == 4
\* largest page count enumerated exhaustively
MaxPages == 4

\* characters of the enumerated page expressions: digits, the two
\* separators, white space, and a letter (which is also the hex marker)
Alphabet == {"0", "1", "2", "-", ",", " ", "x"}

\* the page expressions quoted by the specification, and two more of the
\* same shapes: a backwards range and an out-of-bounds number among other tokens
ExampleExprs ==
    { <<"3", ",", "1", "-", "2">>,
      <<"3", ",", "1">>,
      <<"1", "-", "1", "0", "0">>,
      <<"2", ",", "4", "-", "6", ",", "1", "1">>,
      <<"1", ",", "1">>,
      <<"0", "-", "3">>,
      <<"3", "-", "1", ",", "2">>,
      <<"1", "1", ",", "1", "2", "-", "1", "3">> }

\* the page counts quoted by the specification
ExamplePages == {5, 10}

RECURSIVE StringsUpTo(_)
StringsUpTo(n) ==
    IF n = 0 THEN { <<>> }
    ELSE LET shorter == StringsUpTo(n - 1)
         IN  shorter \cup { Append(s, c) : s \in { t \in shorter : Len(t) = n - 1 },
                                           c \in Alphabet }

\* req.body.pages: undefined, or a string
Undefined == [defined |-> FALSE, str |-> <<>>]
Str(s) == [defined |-> TRUE, str |-> s]

PagesInputs == {Undefined} \cup { Str(s) : s \in StringsUpTo(MaxLen) \cup ExampleExprs }

PageCounts == (0 .. MaxPages) \cup ExamplePages

\* an uploaded file: either pdf-lib cannot parse it, or it has pageCount pages
Files == { [parses |-> FALSE, pageCount |-> 0] }
         \cup { [parses |-> TRUE, pageCount |-> n] : n \in PageCounts }

(***************************************************************************)
(* JavaScript numbers                                                      *)
(***************************************************************************)
NaN == [nan |-> TRUE, v |-> 0]
Num(n) == [nan |-> FALSE, v |-> n]

JsAdd(x, n) == IF x.nan THEN NaN ELSE Num(x.v + n)
JsLe(x, y) == ~x.nan /\ ~y.nan /\ x.v <= y.v
JsLt(x, y) == ~x.nan /\ ~y.nan /\ x.v < y.v
JsGe(x, y) == ~x.nan /\ ~y.nan /\ x.v >= y.v

(***************************************************************************)
(* JavaScript string functions used by the resolver                        *)
(***************************************************************************)
IsSpace(c) == c = " "

RECURSIVE TrimStart(_)
TrimStart(s) ==
    IF s # <<>> /\ IsSpace(Head(s)) THEN TrimStart(Tail(s)) ELSE s

RECURSIVE TrimEnd(_)
TrimEnd(s) ==
    IF s # <<>> /\ IsSpace(s[Len(s)]) THEN TrimEnd(SubSeq(s, 1, Len(s) - 1)) ELSE s

\* String.prototype.trim
Trim(s) == TrimEnd(TrimStart(s))

\* String.prototype.includes, for a one-character needle
Includes(s, c) == \E k \in DOMAIN s : s[k] = c

\* String.prototype.split, for a one-character separator: the pieces
\* between the separators, empty pieces kept
RECURSIVE SplitFrom(_, _, _, _)
SplitFrom(s, sep, cur, acc) ==
    IF s = <<>> THEN Append(acc, cur)
    ELSE IF Head(s) = sep THEN SplitFrom(Tail(s), sep, <<>>, Append(acc, cur))
    ELSE SplitFrom(Tail(s), sep, Append(cur, Head(s)), acc)

Split(s, sep) == SplitFrom(s, sep, <<>>, <<>>)

\* value of a digit character, 99 for a character that is no digit
DigitVal(c) ==
    CASE c = "0" -> 0 [] c = "1" -> 1 [] c = "2" -> 2 [] c = "3" -> 3
      [] c = "4" -> 4 [] c = "5" -> 5 [] c = "6" -> 6 [] c = "7" -> 7
      [] c = "8" -> 8 [] c = "9" -> 9
      [] c \in {"a", "A"} -> 10 [] c \in {"b", "B"} -> 11
      [] c \in {"c", "C"} -> 12 [] c \in {"d", "D"} -> 13
      [] c \in {"e", "E"} -> 14 [] c \in {"f", "F"} -> 15
      [] OTHER -> 99

\* the longest prefix of s made of digits of the radix
RECURSIVE DigitPrefix(_, _)
DigitPrefix(s, radix) ==
    IF s # <<>> /\ DigitVal(Head(s)) < radix
    THEN <<Head(s)>> \o DigitPrefix(Tail(s), radix)
    ELSE <<>>

RECURSIVE DigitsValue(_, _, _)
DigitsValue(s, radix, acc) ==
    IF s = <<>> THEN acc
    ELSE DigitsValue(Tail(s), radix, acc * radix + DigitVal(Head(s)))

\* parseInt(s) with no radix argument: leading white space is skipped, an
\* optional sign is read, a 0x prefix selects radix 16, then the longest
\* run of digits is converted; no digit at all gives NaN
ParseInt(s) ==
    LET t      == TrimStart(s)
        signed == t # <<>> /\ Head(t) \in {"+", "-"}
        sign   == IF signed /\ Head(t) = "-" THEN -1 ELSE 1
        u      == IF signed THEN Tail(t) ELSE t
        hex    == Len(u) >= 2 /\ u[1] = "0" /\ u[2] \in {"x", "X"}
        radix  == IF hex THEN 16 ELSE 10
        body   == IF hex THEN SubSeq(u, 3, Len(u)) ELSE u
        digits == DigitPrefix(body, radix)
    IN  IF digits = <<>> THEN NaN ELSE Num(sign * DigitsValue(digits, radix, 0))

(***************************************************************************)
(* The page-range resolver of splitPDF                                     *)
(***************************************************************************)
\* variant: the 1-based number is used as the index
ToIndexOneBased(n) == ParseInt(Trim(n))

\* n => parseInt(n.trim()) - 1
ToIndex(n) == JsAdd(ParseInt(Trim(n)), -1)

\* variant: an index already selected is not selected again
PushUnique(acc, i) ==
    IF \E k \in DOMAIN acc : acc[k] = i THEN acc ELSE Append(acc, i)

\* pageIndices.push(i)
Push(acc, i) == Append(acc, i)

\* variant: the lower bound is not checked per element
RangeEmitsUnchecked(i) == ~i.nan

\* the guard of the push inside the range loop
RangeEmits(i) == JsGe(i, Num(0))

\* variant: the end of the range is exclusive
RECURSIVE RangeLoopExclusive(_, _, _, _)
RangeLoopExclusive(i, end, total, acc) ==
    IF JsLt(i, end) /\ JsLt(i, Num(total))
    THEN RangeLoopExclusive(JsAdd(i, 1), end, total,
                            IF RangeEmits(i) THEN Push(acc, i.v) ELSE acc)
    ELSE acc

\* for (let i = start; i <= end && i < totalPages; i++) if (i >= 0) push(i)
RECURSIVE RangeLoop(_, _, _, _)
RangeLoop(i, end, total, acc) ==
    IF JsLe(i, end) /\ JsLt(i, Num(total))
    THEN RangeLoop(JsAdd(i, 1), end, total,
                   IF RangeEmits(i) THEN Push(acc, i.v) ELSE acc)
    ELSE acc

\* variant: a range written backwards is read forwards
RangePartNormalised(part, total, acc) ==
    LET pieces == Split(part, "-")
        start  == ToIndex(pieces[1])
        end    == ToIndex(pieces[2])
    IN  IF JsLt(end, start) THEN RangeLoop(end, start, total, acc)
        ELSE RangeLoop(start, end, total, acc)

\* const [start, end] = part.split('-').map(...)
RangePart(part, total, acc) ==
    LET pieces == Split(part, "-")
        start  == ToIndex(pieces[1])
        end    == ToIndex(pieces[2])
    IN  RangeLoop(start, end, total, acc)

\* variant: the upper bound is inclusive
SingleInBoundsInclusive(pageNum, total) ==
    JsGe(pageNum, Num(0)) /\ JsLe(pageNum, Num(total))

\* the guard of the push of a single page number
SingleInBounds(pageNum, total) == JsGe(pageNum, Num(0)) /\ JsLt(pageNum, Num(total))

SinglePart(part, total, acc) ==
    LET pageNum == ToIndex(part)
    IN  IF SingleInBounds(pageNum, total) THEN Push(acc, pageNum.v) ELSE acc

\* the body of: for (const part of parts)
ProcessPart(part, total, acc) ==
    IF Includes(part, "-") THEN RangePart(part, total, acc)
    ELSE SinglePart(part, total, acc)

RECURSIVE ProcessParts(_, _, _)
ProcessParts(parts, total, acc) ==
    IF parts = <<>> THEN acc
    ELSE ProcessParts(Tail(parts), total, ProcessPart(Head(parts), total, acc))

\* if (pages): undefined and the empty string are falsy
Truthy(p) == p.defined /\ p.str # <<>>

\* variant: the default is written 1-based
DefaultSelectionOneBased == <<1>>

\* the selection when no expression is given
DefaultSelection == <<0>>

\* lines 86-107: the page selection splitPDF builds
ResolvePages(p, total) ==
    IF Truthy(p) THEN ProcessParts(Split(p.str, ","), total, <<>>)
    ELSE DefaultSelection

(***************************************************************************)
(* pdf-lib, at its boundary                                                *)
(***************************************************************************)
\* PDFDocument.copyPages(src, indices) reads src.getPages()[index].node for
\* each index and so throws a TypeError on an index that is no page of src
CopyPagesThrows(indices, total) ==
    \E k \in DOMAIN indices : ~(0 <= indices[k] /\ indices[k] < total)

Range(n) == [k \in 1 .. n |-> k - 1]

(***************************************************************************)
(* splitPDF as a state machine                                             *)
(***************************************************************************)
NoOutput == [kind |-> "none", pages |-> <<>>]

\* no rotate request is in progress
RotateIdle == rotation = <<>>

\* no upload route is being handled
RouteIdle ==
    /\ hreq = [route |-> "none"]
    /\ reqFiles = <<>>
    /\ hpc = "idle"
    /\ uploadsDir = {}
    /\ response = 0
    /\ trace = <<>>
    /\ sresult = "pending"

\* the output directory is empty and nothing uses it
StoreIdle ==
    /\ outputDir = {}
    /\ issued = {}
    /\ jobs = <<>>
    /\ download = [pc |-> "idle"]

\* no FileUploader is constructed
UploaderIdle ==
    /\ files = <<>>
    /\ maxFiles = 0
    /\ acceptedTypes = <<>>
    /\ lastOp = [op |-> "none"]

LaterIdle == RouteIdle /\ StoreIdle /\ UploaderIdle

\* no compress request is in progress
CompressIdle ==
    /\ request = [via |-> "none"]
    /\ doc = [parses |-> FALSE, objects |-> <<>>, packedSize |-> 0]
    /\ copts = [quality |-> "undefined", targetSize |-> Undefined]
    /\ cpc = "idle"
    /\ targetSize = NaN
    /\ quality = 0
    /\ resizeRatio = 0
    /\ attempt = 0
    /\ calls = <<>>
    /\ compressedBytes = [size |-> 0, objects |-> <<>>]
    /\ cresult = "pending"
    /\ cwritten = [size |-> 0, objects |-> <<>>, exists |-> FALSE]

Init ==
    /\ RotateIdle
    /\ CompressIdle
    /\ LaterIdle
    /\ file \in Files
    /\ options \in [pages : PagesInputs, mode : {"all", "undefined"}]
    /\ pc = "start"
    /\ totalPages = 0
    /\ pageIndices = <<>>
    /\ result = "pending"
    /\ written = NoOutput

\* lines 46-48: read and load the upload; an unparseable file rejects
SplitLoad ==
    /\ pc = "start"
    /\ IF file.parses
       THEN /\ totalPages' = file.pageCount
            /\ pc' = "loaded"
            /\ UNCHANGED result
       ELSE /\ pc' = "done"
            /\ result' = "threw"
            /\ UNCHANGED totalPages
    /\ UNCHANGED <<file, options, pageIndices, written>>
    /\ UNCHANGED <<rotateVars, compressVars, laterVars>>

\* lines 55-84: mode 'all' writes one zip holding every page as its own PDF
SplitAllPages ==
    /\ pc = "loaded"
    /\ options.mode = "all"
    /\ pc' = "done"
    /\ result' = "returned"
    /\ written' = [kind |-> "zip", pages |-> Range(totalPages)]
    /\ UNCHANGED <<file, options, totalPages, pageIndices>>
    /\ UNCHANGED <<rotateVars, compressVars, laterVars>>

\* lines 86-107: build the page selection
SplitResolve ==
    /\ pc = "loaded"
    /\ options.mode # "all"
    /\ pageIndices' = ResolvePages(options.pages, totalPages)
    /\ pc' = "resolved"
    /\ UNCHANGED <<file, options, totalPages, result, written>>
    /\ UNCHANGED <<rotateVars, compressVars, laterVars>>

\* lines 109-114: copy the selected pages, save and write the output
SplitCopy ==
    /\ pc = "resolved"
    /\ pc' = "done"
    /\ IF CopyPagesThrows(pageIndices, totalPages)
       THEN /\ result' = "threw"
            /\ UNCHANGED written
       ELSE /\ result' = "returned"
            /\ written' = [kind |-> "pdf", pages |-> pageIndices]
    /\ UNCHANGED <<file, options, totalPages, pageIndices>>
    /\ UNCHANGED <<rotateVars, compressVars, laterVars>>

Next ==
    \/ SplitLoad
    \/ SplitAllPages
    \/ SplitResolve
    \/ SplitCopy

Spec == Init /\ [][Next]_vars

TypeOK ==
    /\ pc \in {"start", "loaded", "resolved", "done"}
    /\ result \in {"pending", "returned", "threw"}
    /\ totalPages \in PageCounts

(***************************************************************************)
(* Vocabulary of the properties, defined apart from the resolver           *)
(***************************************************************************)
\* the page selection has been built (it is kept until the request ends)
Built == pc \in {"resolved", "done"} /\ file.parses /\ options.mode # "all"

\* splitPDF has run to its end on a parsed file, in page-selection mode
Finished == pc = "done" /\ file.parses /\ options.mode # "all"

DecimalDigits == {"0", "1", "2", "3", "4", "5", "6", "7", "8", "9"}

\* s is a decimal numeral: one or more decimal digits and nothing else
IsNumeral(s) == s # <<>> /\ \A k \in DOMAIN s : s[k] \in DecimalDigits

DigitOf(c) == CHOOSE d \in 0 .. 9 : <<"0", "1", "2", "3", "4", "5", "6", "7", "8", "9">>[d + 1] = c

\* the number a decimal numeral denotes
RECURSIVE NumeralValue(_)
NumeralValue(s) ==
    IF s = <<>> THEN 0
    ELSE 10 * NumeralValue(SubSeq(s, 1, Len(s) - 1)) + DigitOf(s[Len(s)])

\* the position of the only hyphen of s, 0 when s has none or several
HyphenAt(s) ==
    IF Cardinality({ k \in DOMAIN s : s[k] = "-" }) = 1
    THEN CHOOSE k \in DOMAIN s : s[k] = "-"
    ELSE 0

\* s is "a-b" for two decimal numerals a and b, white space around each
\* numeral aside
IsRangeToken(s) ==
    /\ HyphenAt(s) # 0
    /\ IsNumeral(Trim(SubSeq(s, 1, HyphenAt(s) - 1)))
    /\ IsNumeral(Trim(SubSeq(s, HyphenAt(s) + 1, Len(s))))

RangeFrom(s) == NumeralValue(Trim(SubSeq(s, 1, HyphenAt(s) - 1)))
RangeTo(s) == NumeralValue(Trim(SubSeq(s, HyphenAt(s) + 1, Len(s))))

\* a token the contract of the resolver admits, white space around it aside
WellFormedToken(t) == IsNumeral(Trim(t)) \/ IsRangeToken(t)

\* the comma-separated tokens of an expression
Tokens(s) == Split(s, ",")

HasMalformedToken(s) == \E k \in DOMAIN Tokens(s) : ~WellFormedToken(Tokens(s)[k])

\* the integers lo, lo+1, ..., hi in ascending order
Interval(lo, hi) == IF hi < lo THEN <<>> ELSE [k \in 1 .. (hi - lo + 1) |-> lo + k - 1]

Max(a, b) == IF a >= b THEN a ELSE b
Min(a, b) == IF a <= b THEN a ELSE b

RECURSIVE Flatten(_)
Flatten(seqs) == IF seqs = <<>> THEN <<>> ELSE Head(seqs) \o Flatten(Tail(seqs))

ExprIs(s) == options.pages.defined /\ options.pages.str = s

(***************************************************************************)
(* Page-range resolver: properties                                         *)
(***************************************************************************)

\* C1: for every page expression (present, empty or absent) and every
\* totalPages >= 0, every index of the page selection splitPDF builds
\* satisfies 0 <= index < totalPages.
C1_IndicesInBounds ==
    Built => \A k \in DOMAIN pageIndices :
                 0 <= pageIndices[k] /\ pageIndices[k] < totalPages

\* C2: when totalPages = 0 the resolver yields the empty sequence for every
\* expression, an empty or absent expression included.
C2_ZeroPagesEmpty ==
    (Built /\ totalPages = 0) => pageIndices = <<>>

\* C3: an expression holding a token whose numeric parse fails is rejected
\* with an error: splitPDF raises and writes no output.
C3_MalformedRejected ==
    (Finished /\ Truthy(options.pages) /\ HasMalformedToken(options.pages.str))
        => (result = "threw" /\ written = NoOutput)

\* C4: when the page expression is absent and totalPages > 0, the selection
\* is exactly the one-element sequence <<0>>.
C4_AbsentSelectsFirstPage ==
    (Built /\ ~options.pages.defined /\ totalPages > 0) => pageIndices = <<0>>

C4_Witness ==
    pc = "resolved" /\ ~options.pages.defined /\ totalPages = MaxPages
    /\ pageIndices = <<0>>

\* C5: the selection is the concatenation, in left-to-right token order, of
\* what each comma-separated token selects on its own; nothing is sorted and
\* duplicates are kept: "3,1-2" on 5 pages gives <<2,0,1>>, "3,1" gives
\* <<2,0>> and "1,1" gives <<0,0>>.
C5_TokenOrderKept ==
    (Built /\ Truthy(options.pages)) =>
        /\ pageIndices =
             Flatten([k \in DOMAIN Tokens(options.pages.str) |->
                         ProcessPart(Tokens(options.pages.str)[k], totalPages, <<>>)])
        /\ (ExprIs(<<"3", ",", "1", "-", "2">>) /\ totalPages = 5) => pageIndices = <<2, 0, 1>>
        /\ (ExprIs(<<"3", ",", "1">>) /\ totalPages = 5) => pageIndices = <<2, 0>>
        /\ (ExprIs(<<"1", ",", "1">>) /\ totalPages >= 1) => pageIndices = <<0, 0>>

C5_Witness ==
    pc = "resolved" /\ ExprIs(<<"3", ",", "1", "-", "2">>) /\ totalPages = 5
    /\ pageIndices = <<2, 0, 1>>

\* C6: a range token a-b whose bounds fall partly outside 1..totalPages is
\* clipped element by element and raises no error: it selects exactly the
\* indices i with max(a-1,0) <= i <= min(b-1,totalPages-1); "1-100" on 5
\* pages gives <<0,1,2,3,4>> and "0-3" gives <<0,1,2>>.
C6_RangeClipped ==
    (Built /\ options.pages.defined /\ IsRangeToken(options.pages.str)) =>
        /\ pageIndices = Interval(Max(RangeFrom(options.pages.str) - 1, 0),
                                  Min(RangeTo(options.pages.str) - 1, totalPages - 1))
        /\ (ExprIs(<<"1", "-", "1", "0", "0">>) /\ totalPages = 5)
               => pageIndices = <<0, 1, 2, 3, 4>>
        /\ (ExprIs(<<"0", "-", "3">>) /\ totalPages = 5) => pageIndices = <<0, 1, 2>>
        /\ pc = "done" => result = "returned"

C6_Witness ==
    pc = "done" /\ ExprIs(<<"0", "-", "2">>) /\ totalPages = 1
    /\ pageIndices = <<0>> /\ result = "returned"

\* C7: for every single-number expression "n" with 1 <= n <= totalPages the
\* selection is exactly <<n-1>>.
C7_SingleNumber ==
    (Built /\ options.pages.defined /\ IsNumeral(options.pages.str)
           /\ 1 <= NumeralValue(options.pages.str)
           /\ NumeralValue(options.pages.str) <= totalPages)
        => pageIndices = <<NumeralValue(options.pages.str) - 1>>

C7_Witness ==
    pc = "resolved" /\ ExprIs(<<"2">>) /\ totalPages = MaxPages /\ pageIndices = <<1>>

\* C8: for every range expression "a-b" with 1 <= a <= b <= totalPages the
\* selection is the contiguous ascending sequence a-1, a, ..., b-1, of
\* length b-a+1.
C8_RangeInBounds ==
    (Built /\ options.pages.defined /\ IsRangeToken(options.pages.str)
           /\ 1 <= RangeFrom(options.pages.str)
           /\ RangeFrom(options.pages.str) <= RangeTo(options.pages.str)
           /\ RangeTo(options.pages.str) <= totalPages)
        => /\ Len(pageIndices) = RangeTo(options.pages.str) - RangeFrom(options.pages.str) + 1
           /\ \A k \in DOMAIN pageIndices :
                  pageIndices[k] = RangeFrom(options.pages.str) - 1 + (k - 1)

C8_Witness ==
    pc = "resolved" /\ ExprIs(<<"1", "-", "2">>) /\ totalPages = MaxPages
    /\ pageIndices = <<0, 1>>

\* a range token written backwards: a-b with a > b
IsReversedRange(t) == IsRangeToken(t) /\ RangeFrom(t) > RangeTo(t)

\* C9: a range token with start > end contributes no index at all, and what
\* the other tokens of the expression contribute is unchanged: the selection
\* is the one the expression without its backwards ranges gives.
C9_ReversedRangeEmpty ==
    (Built /\ Truthy(options.pages)) =>
        LET Forward(t) == ~IsReversedRange(t)
        IN  /\ pageIndices =
                 ProcessParts(SelectSeq(Tokens(options.pages.str), Forward), totalPages, <<>>)
            /\ IsReversedRange(options.pages.str) => pageIndices = <<>>

C9_Witness ==
    pc = "resolved" /\ ExprIs(<<"3", "-", "1", ",", "2">>) /\ totalPages = 5
    /\ pageIndices = <<1>>

\* a token that names no page of the document: a number outside
\* 1..totalPages, or a forward range lying wholly outside it
IsOutOfBoundsNumber(t, total) ==
    IsNumeral(Trim(t)) /\ ~(1 <= NumeralValue(Trim(t)) /\ NumeralValue(Trim(t)) <= total)

IsOutOfBoundsToken(t, total) ==
    \/ IsOutOfBoundsNumber(t, total)
    \/ IsRangeToken(t) /\ (RangeTo(t) < 1 \/ RangeFrom(t) > total)

\* C10: a single-number token outside 1..totalPages is dropped without an
\* error and without affecting the other tokens ("2,4-6,11" on 10 pages
\* gives <<1,3,4,5>>); when every token is out of bounds the selection is
\* empty and splitPDF still returns, writing a document with no copied page.
C10_OutOfBoundsDropped ==
    (Built /\ Truthy(options.pages)) =>
        LET toks == Tokens(options.pages.str)
            InBounds(t) == ~IsOutOfBoundsNumber(t, totalPages)
        IN  /\ pageIndices = ProcessParts(SelectSeq(toks, InBounds), totalPages, <<>>)
            /\ (ExprIs(<<"2", ",", "4", "-", "6", ",", "1", "1">>) /\ totalPages = 10)
                   => pageIndices = <<1, 3, 4, 5>>
            /\ (\A k \in DOMAIN toks : IsOutOfBoundsToken(toks[k], totalPages))
                   => pageIndices = <<>>
            /\ (pc = "done" /\ \E k \in DOMAIN toks : IsOutOfBoundsNumber(toks[k], totalPages))
                   => (result = "returned" /\ written = [kind |-> "pdf", pages |-> pageIndices])

C10_Witness ==
    pc = "done" /\ ExprIs(<<"2", ",", "4", "-", "6", ",", "1", "1">>) /\ totalPages = 10
    /\ pageIndices = <<1, 3, 4, 5>> /\ result = "returned"

\* every token of the expression out of bounds, and splitPDF has returned
C10_AllOutOfBoundsReached ==
    pc = "done" /\ ExprIs(<<"1", "1", ",", "1", "2", "-", "1", "3">>) /\ totalPages = 10
    /\ pageIndices = <<>> /\ result = "returned"

(***************************************************************************)
(* rotatePDF as a state machine                                            *)
(***************************************************************************)
\* the literal 'all'
AllPagesExpr == <<"a", "l", "l">>

\* options.degrees: 0 stands for an absent (falsy) value
DegreesInputs == {0, 180}

\* const rotationDegrees = options.degrees || 90
RotationDegrees(o) == IF o.degrees = 0 THEN 90 ELSE o.degrees

\* options.pages === 'all' || !options.pages
RotatesAll(p) == ~Truthy(p) \/ p.str = AllPagesExpr

\* options.pages.split(',').map(n => parseInt(n.trim()) - 1)
RotateIndices(p) == [k \in DOMAIN Split(p.str, ",") |-> ToIndex(Split(p.str, ",")[k])]

\* page.setRotation(degrees(currentRotation + rotationDegrees)), on the
\* page of 0-based index i
RotatePage(rot, i, deg) == [rot EXCEPT ![i + 1] = @ + deg]

\* pageIndices.forEach(index => { if (index >= 0 && index < pages.length) ... })
RECURSIVE RotateEach(_, _, _)
RotateEach(indices, rot, deg) ==
    IF indices = <<>> THEN rot
    ELSE LET index == Head(indices)
         IN  RotateEach(Tail(indices),
                        IF JsGe(index, Num(0)) /\ JsLt(index, Num(Len(rot)))
                        THEN RotatePage(rot, index.v, deg) ELSE rot,
                        deg)

\* lines 258-274: rotate all pages or specific ones
RotatePages(p, rot, deg) ==
    IF RotatesAll(p) THEN [k \in DOMAIN rot |-> rot[k] + deg]
    ELSE RotateEach(RotateIndices(p), rot, deg)

RotateInit ==
    /\ file \in Files
    /\ options \in [pages : PagesInputs \cup {Str(AllPagesExpr)}, degrees : DegreesInputs]
    /\ pc = "rotate_start"
    /\ totalPages = 0
    /\ pageIndices = <<>>
    /\ result = "pending"
    /\ written = NoOutput
    /\ rotation = <<>>
    /\ CompressIdle
    /\ LaterIdle

\* lines 252-256: read and load the upload, take its pages
RotateLoad ==
    /\ pc = "rotate_start"
    /\ IF file.parses
       THEN /\ totalPages' = file.pageCount
            /\ rotation' = [k \in 1 .. file.pageCount |-> 0]
            /\ pc' = "rotate_loaded"
            /\ UNCHANGED result
       ELSE /\ pc' = "rotate_done"
            /\ result' = "threw"
            /\ UNCHANGED <<totalPages, rotation>>
    /\ UNCHANGED <<file, options, pageIndices, written, compressVars, laterVars>>

\* lines 258-274: set the rotation of the selected pages
RotateApply ==
    /\ pc = "rotate_loaded"
    /\ rotation' = RotatePages(options.pages, rotation, RotationDegrees(options))
    /\ pc' = "rotated"
    /\ UNCHANGED <<file, options, totalPages, pageIndices, result, written, compressVars, laterVars>>

\* lines 276-277: save and write the output
RotateSave ==
    /\ pc = "rotated"
    /\ pc' = "rotate_done"
    /\ result' = "returned"
    /\ written' = [kind |-> "pdf", pages |-> Range(totalPages)]
    /\ UNCHANGED <<file, options, totalPages, pageIndices, rotation, compressVars, laterVars>>

RotateNext ==
    \/ RotateLoad
    \/ RotateApply
    \/ RotateSave

RotateSpec == RotateInit /\ [][RotateNext]_vars

(***************************************************************************)
(* rotatePDF: properties                                                   *)
(***************************************************************************)
\* the 0-based indices of the pages rotatePDF has rotated
RotatedPages == { k - 1 : k \in { j \in DOMAIN rotation : rotation[j] # 0 } }

\* the 0-based indices splitPDF selects for the same expression
SplitSelection(p, total) ==
    { ResolvePages(p, total)[k] : k \in DOMAIN ResolvePages(p, total) }

\* C11: rotatePDF reads a page expression as splitPDF does: for every
\* expression given and every page count, the set of pages rotated is the
\* set of indices splitPDF selects, range tokens such as "1-3" included.
C11_RotateResolvesAsSplit ==
    (pc \in {"rotated", "rotate_done"} /\ file.parses /\ Truthy(options.pages))
        => RotatedPages = SplitSelection(options.pages, totalPages)

(***************************************************************************)
(* compressPDF: documents, options and the recompression pass              *)
(***************************************************************************)
\* most indirect objects of an enumerated document
MaxObjects == 2

\* an indirect object of a document.  kind "jpeg" is a PDFRawStream with
\* Subtype Image and Filter DCTDecode, "png" an image stream with another
\* filter, "stream" any other object.  w and h are the Width and Height of
\* its dictionary, decodes tells whether sharp can decode its contents, and
\* payload whether the contents are the original ones or a JPEG written at
\* quality q
OriginalPayload == [reencoded |-> FALSE, q |-> 0]

Jpeg(w, h, ok) == [kind |-> "jpeg", w |-> w, h |-> h, decodes |-> ok,
                   payload |-> OriginalPayload]

ObjectInputs ==
    { Jpeg(1000, 1000, TRUE), Jpeg(3, 1, TRUE), Jpeg(10, 7, FALSE),
      [kind |-> "png", w |-> 10, h |-> 7, decodes |-> TRUE, payload |-> OriginalPayload],
      [kind |-> "stream", w |-> 0, h |-> 0, decodes |-> FALSE, payload |-> OriginalPayload] }

RECURSIVE ObjectSeqs(_)
ObjectSeqs(n) ==
    IF n = 0 THEN { <<>> }
    ELSE LET shorter == ObjectSeqs(n - 1)
         IN  shorter \cup { Append(s, o) : s \in { t \in shorter : Len(t) = n - 1 },
                                           o \in ObjectInputs }

\* byte sizes an output can have: at, just above and far above 1 KB
Sizes == {1024, 1025, 3000}

\* an uploaded file: unparseable, or a document with its objects and the
\* size pdf-lib saves it to when no image is replaced
Docs == { [parses |-> FALSE, objects |-> <<>>, packedSize |-> 0] }
        \cup { [parses |-> TRUE, objects |-> os, packedSize |-> sz] :
                  os \in ObjectSeqs(MaxObjects), sz \in Sizes }

\* quality as sent by a caller; "undefined" stands for an absent field
QualityInputs == {"low", "medium", "high", "undefined"}

\* targetSize as sent by a caller, in kilobytes
TargetInputs == {Undefined, Str(<<"0">>), Str(<<"x">>), Str(<<"1">>), Str(<<"2">>)}

\* a call of the /compress route with a request body, or a call of the
\* exported compressPDF with the same fields as options
Requests == [via : {"route", "service"}, quality : QualityInputs, targetSize : TargetInputs]

\* null: falsy, and 0 where a number is wanted
Null == Num(0)

JsMul(x, n) == IF x.nan THEN NaN ELSE Num(x.v * n)

\* variant: only 0 and null are falsy
TruthyNumberOrNaN(x) == x.nan \/ x.v # 0

\* if (targetSize): NaN, 0 and null are falsy
TruthyNumber(x) == ~x.nan /\ x.v # 0

\* line 130: options.targetSize ? parseInt(options.targetSize) * 1024 : null
ParseTarget(t) == IF Truthy(t) THEN JsMul(ParseInt(t.str), 1024) ELSE Null

\* variant: the tiers low and high are swapped
TierPairSwapped(q) ==
    IF q = "low" THEN [quality |-> 80, resizeRatio |-> 100]
    ELSE IF q = "high" THEN [quality |-> 30, resizeRatio |-> 50]
    ELSE [quality |-> 60, resizeRatio |-> 75]

\* lines 133-142: the pair of a quality tier; resizeRatio is in hundredths
TierPair(q) ==
    IF q = "low" THEN [quality |-> 30, resizeRatio |-> 50]
    ELSE IF q = "high" THEN [quality |-> 80, resizeRatio |-> 100]
    ELSE [quality |-> 60, resizeRatio |-> 75]

\* variant: the loop starts from the pair of the tier
StartPairOfTier(q) == TierPair(q)

\* lines 215-216: the pair of the first attempt of the target-size loop
StartPair(q) == [quality |-> 70, resizeRatio |-> 80]

\* variant: one attempt more (i <= 5)
MaxAttemptsSix == Len(<<0, 1, 2, 3, 4, 5>>)

\* line 218: the attempt budget
MaxAttempts == 5

\* variant: the target has to be undercut
MeetsTargetStrictly(size, target) == JsLt(Num(size), target)

\* line 220: compressedBytes.length <= targetSize
MeetsTarget(size, target) == JsLe(Num(size), target)

\* variant: quality goes down by 10
StepQualityByTen(q) == IF q - 10 < 10 THEN 10 ELSE q - 10

\* lines 224, 226: quality -= 15; if (quality < 10) quality = 10
StepQuality(q) == IF q - 15 < 10 THEN 10 ELSE q - 15

\* variant: the ratio goes up
StepRatioUp(r) == IF r + 15 > 100 THEN 100 ELSE r + 15

\* variant: a larger step, and no floor
StepRatioUnclamped(r) == r - 25

\* lines 225, 227: resizeRatio -= 0.15; if (resizeRatio < 0.2) resizeRatio = 0.2
\* (the doubles 0.8, 0.65, 0.5, 0.35 and 0.2 are the hundredths 80 .. 20)
StepRatio(r) == IF r - 15 < 20 THEN 20 ELSE r - 15

\* Math.round(d * r) for r in hundredths: halves round up
RoundScaled(d, r) == (d * r + 50) \div 100

\* lines 165-166: Math.max(1, Math.round(dimension * r))
NewDim(d, r) == IF RoundScaled(d, r) < 1 THEN 1 ELSE RoundScaled(d, r)

\* variant: every image stream is taken, whatever its filter
IsEligibleAnyImage(o) == o.kind \in {"jpeg", "png"}

\* lines 151-159: a PDFRawStream with Subtype Image and Filter DCTDecode
IsEligible(o) == o.kind = "jpeg"

\* lines 168-171: sharp fails on contents it cannot decode
SharpFails(o) == ~o.decodes

\* lines 160-193: resize and re-encode one image and replace it in place;
\* a failure is caught and leaves the object as it was
Recompress(o, q, r) ==
    IF SharpFails(o) THEN o
    ELSE [o EXCEPT !.w = NewDim(o.w, r), !.h = NewDim(o.h, r),
                   !.payload = [reencoded |-> TRUE, q |-> q]]

\* variant: the first image that fails ends the loop over the objects
CompressObjectsUntilFailure(objs, q, r) ==
    [k \in DOMAIN objs |->
        IF IsEligible(objs[k])
           /\ ~\E j \in 1 .. k : IsEligible(objs[j]) /\ SharpFails(objs[j])
        THEN Recompress(objs[k], q, r) ELSE objs[k]]

\* lines 150-197: the loop over the indirect objects
CompressObjects(objs, q, r) ==
    [k \in DOMAIN objs |-> IF IsEligible(objs[k]) THEN Recompress(objs[k], q, r) ELSE objs[k]]

\* the sizes pdfDoc.save can give after a pass: the size of the repacked
\* document when no image was replaced, any size otherwise
SavedSizes(d, q, r) ==
    IF CompressObjects(d.objects, q, r) = d.objects THEN {d.packedSize} ELSE Sizes

(***************************************************************************)
(* compressPDF and the /compress route as a state machine                  *)
(***************************************************************************)
CompressInit ==
    /\ file = [parses |-> FALSE, pageCount |-> 0]
    /\ options = [pages |-> Undefined, mode |-> "undefined"]
    /\ pc = "idle"
    /\ totalPages = 0
    /\ pageIndices = <<>>
    /\ result = "pending"
    /\ written = NoOutput
    /\ RotateIdle
    /\ LaterIdle
    /\ request \in Requests
    /\ doc \in Docs
    /\ copts = [quality |-> "undefined", targetSize |-> Undefined]
    /\ cpc = "request"
    /\ targetSize = NaN
    /\ quality = 0
    /\ resizeRatio = 0
    /\ attempt = 0
    /\ calls = <<>>
    /\ compressedBytes = [size |-> 0, objects |-> <<>>]
    /\ cresult = "pending"
    /\ cwritten = [size |-> 0, objects |-> <<>>, exists |-> FALSE]

\* part_001 lines 233-234: const { quality } = req.body;
\* compressPDF(req.file, { quality: quality || 'medium' })
RouteOptions(body) ==
    [quality |-> IF body.quality = "undefined" THEN "medium" ELSE body.quality,
     targetSize |-> Undefined]

\* router.post('/compress'): the handler builds the options and calls
\* compressPDF
CompressRoute ==
    /\ cpc = "request"
    /\ request.via = "route"
    /\ copts' = RouteOptions(request)
    /\ cpc' = "start"
    /\ UNCHANGED <<request, doc, targetSize, quality, resizeRatio, attempt, calls,
                   compressedBytes, cresult, cwritten>>
    /\ UNCHANGED <<splitVars, rotateVars, laterVars>>

\* a caller of the exported compressPDF passes its options as they are
CompressCall ==
    /\ cpc = "request"
    /\ request.via = "service"
    /\ copts' = [quality |-> request.quality, targetSize |-> request.targetSize]
    /\ cpc' = "start"
    /\ UNCHANGED <<request, doc, targetSize, quality, resizeRatio, attempt, calls,
                   compressedBytes, cresult, cwritten>>
    /\ UNCHANGED <<splitVars, rotateVars, laterVars>>

\* lines 121-142 and 210-216: read the upload, parse the target, take the
\* pair of the tier and, with a target, the pair the loop starts from
CompressStart ==
    /\ cpc = "start"
    /\ targetSize' = ParseTarget(copts.targetSize)
    /\ attempt' = 0
    /\ IF TruthyNumber(targetSize')
       THEN /\ quality' = StartPair(copts.quality).quality
            /\ resizeRatio' = StartPair(copts.quality).resizeRatio
            /\ cpc' = "loop"
       ELSE /\ quality' = TierPair(copts.quality).quality
            /\ resizeRatio' = TierPair(copts.quality).resizeRatio
            /\ cpc' = "single"
    /\ UNCHANGED <<request, doc, copts, calls, compressedBytes, cresult, cwritten>>
    /\ UNCHANGED <<splitVars, rotateVars, laterVars>>

\* line 146: PDFDocument.load throws on bytes it cannot parse
LoadThrows(d) == ~d.parses

\* variant: an attempt goes on from the document the attempt before left
LoadedObjectsOfLastAttempt(d, previous) ==
    IF previous = <<>> THEN d.objects ELSE previous

\* line 146: each call loads pdfBytes, the bytes of the upload; previous
\* is the output of the call before
LoadedObjects(d, previous) == d.objects

\* lines 145-208: one call of performCompression(quality, resizeRatio): it
\* loads the uploaded bytes anew, recompresses the images and saves
PerformCompression(size) ==
    /\ size \in SavedSizes(doc, quality, resizeRatio)
    /\ compressedBytes' = [size |-> size,
                           objects |-> CompressObjects(LoadedObjects(doc, compressedBytes.objects),
                                                       quality, resizeRatio)]
    /\ calls' = Append(calls, [quality |-> quality, resizeRatio |-> resizeRatio,
                               size |-> size])

\* variant: a raise of an attempt is caught and the output is written
RaisedToWrite == "write"

\* lines 210-231: no try/catch surrounds the calls of performCompression, a
\* raise leaves compressPDF
RaisedTo == "done"

\* lines 218-228: one iteration of the target-size loop
CompressAttempt ==
    /\ cpc = "loop"
    /\ IF LoadThrows(doc)
       THEN /\ cresult' = "threw"
            /\ cpc' = RaisedTo
            /\ UNCHANGED <<quality, resizeRatio, attempt, calls, compressedBytes>>
       ELSE \E size \in Sizes :
              /\ PerformCompression(size)
              /\ IF MeetsTarget(size, targetSize)
                 THEN /\ cpc' = "write"
                      /\ UNCHANGED <<quality, resizeRatio, attempt>>
                 ELSE /\ quality' = StepQuality(quality)
                      /\ resizeRatio' = StepRatio(resizeRatio)
                      /\ attempt' = attempt + 1
                      /\ cpc' = IF attempt + 1 < MaxAttempts THEN "loop" ELSE "write"
              /\ UNCHANGED cresult
    /\ UNCHANGED <<request, doc, copts, targetSize, cwritten>>
    /\ UNCHANGED <<splitVars, rotateVars, laterVars>>

\* line 230: the single pass made when no target size is set
CompressSingle ==
    /\ cpc = "single"
    /\ IF LoadThrows(doc)
       THEN /\ cresult' = "threw"
            /\ cpc' = RaisedTo
            /\ UNCHANGED <<calls, compressedBytes>>
       ELSE \E size \in Sizes :
              /\ PerformCompression(size)
              /\ cpc' = "write"
              /\ UNCHANGED cresult
    /\ UNCHANGED <<request, doc, copts, targetSize, quality, resizeRatio, attempt, cwritten>>
    /\ UNCHANGED <<splitVars, rotateVars, laterVars>>

\* lines 233-245: write the output file and return its handle and sizes
CompressWrite ==
    /\ cpc = "write"
    /\ cwritten' = [size |-> compressedBytes.size, objects |-> compressedBytes.objects,
                    exists |-> TRUE]
    /\ cresult' = "returned"
    /\ cpc' = "done"
    /\ UNCHANGED <<request, doc, copts, targetSize, quality, resizeRatio, attempt, calls,
                   compressedBytes>>
    /\ UNCHANGED <<splitVars, rotateVars, laterVars>>

CompressNext ==
    \/ CompressRoute
    \/ CompressCall
    \/ CompressStart
    \/ CompressAttempt
    \/ CompressSingle
    \/ CompressWrite

CompressSpec == CompressInit /\ [][CompressNext]_vars

\* a request that has started keeps running: every step is an awaited call
\* or synchronous code, and nothing cancels it
CompressLiveSpec == CompressSpec /\ WF_vars(CompressNext)

CompressTypeOK ==
    /\ cpc \in {"request", "start", "loop", "single", "write", "done"}
    /\ cresult \in {"pending", "returned", "threw"}
    /\ attempt \in 0 .. MaxAttempts
    /\ Len(calls) <= MaxAttempts

(***************************************************************************)
(* compressPDF: properties                                                 *)
(***************************************************************************)
\* compressPDF has taken the target-size branch (line 212)
InLoopBranch == cpc \in {"loop", "write", "done"} /\ TruthyNumber(targetSize)

\* compressPDF has taken the single-pass branch (line 229)
InSingleBranch == cpc \in {"single", "write", "done"} /\ ~TruthyNumber(targetSize)

\* every attempt has been made: the loop is left, or the single pass done
AttemptsOver == cpc \in {"write", "done"} /\ doc.parses

LastCall == calls[Len(calls)]

\* C12: with a target size given, compressPDF makes at least 1 and at most
\* 5 recompression attempts and then terminates, whatever the target, one
\* no attempt can reach included.
C12_BoundedAttempts ==
    /\ [](copts.targetSize.defined =>
            /\ Len(calls) <= 5
            /\ cpc = "loop" => (attempt < 5 /\ Len(calls) = attempt)
            /\ AttemptsOver => Len(calls) >= 1)
    /\ <>(cpc = "done")

\* five attempts made, none of which reached the target
C12_Witness ==
    /\ cpc = "done" /\ InLoopBranch /\ Len(calls) = 5
    /\ \A k \in DOMAIN calls : calls[k].size > targetSize.v

\* C13: in the target-size loop the first attempt whose output size is
\* <= targetBytes ends the loop: no attempt follows it, and the bytes written
\* and returned are that attempt's bytes; so the result exceeds the target
\* only if all 5 attempts did.
C13_FirstFitEndsLoop ==
    InLoopBranch =>
        /\ \A k \in 1 .. (Len(calls) - 1) : calls[k].size > targetSize.v
        /\ (calls # <<>> /\ LastCall.size <= targetSize.v) => cpc \in {"write", "done"}
        /\ cwritten.exists =>
              /\ cwritten.size = LastCall.size
              /\ cwritten.objects = compressedBytes.objects
              /\ compressedBytes.size = LastCall.size
              /\ cwritten.size > targetSize.v =>
                    (Len(calls) = 5 /\ \A k \in DOMAIN calls : calls[k].size > targetSize.v)

\* the third attempt is the first to fit, and its bytes are written
C13_Witness ==
    /\ cpc = "done" /\ InLoopBranch /\ Len(calls) = 3
    /\ calls[3].size = targetSize.v /\ cwritten.exists /\ cwritten.size = calls[3].size

\* C14: if all 5 attempts exceed the target, compressPDF raises no error and
\* returns the bytes of the 5th attempt, which was made at the floor
\* settings quality = 10 and resizeRatio = 0.2.
C14_ExhaustedReturnsFloor ==
    (InLoopBranch /\ cpc = "done" /\ doc.parses /\ Len(calls) = 5 /\ calls[5].size > targetSize.v)
        => /\ cresult = "returned"
           /\ calls[5].quality = 10 /\ calls[5].resizeRatio = 20
           /\ cwritten.exists /\ cwritten.size = calls[5].size
           /\ \A k \in DOMAIN doc.objects :
                 (doc.objects[k].kind = "jpeg" /\ doc.objects[k].decodes)
                     => cwritten.objects[k].payload = [reencoded |-> TRUE, q |-> 10]

C14_Witness ==
    /\ cpc = "done" /\ InLoopBranch /\ Len(calls) = 5 /\ calls[5].size > targetSize.v
    /\ cresult = "returned" /\ cwritten.size = 3000
    /\ \E k \in DOMAIN doc.objects : doc.objects[k].kind = "jpeg" /\ doc.objects[k].decodes

C16_PairInRange ==
    /\ \A k \in DOMAIN calls :
          /\ 10 <= calls[k].quality /\ calls[k].quality <= 100
          /\ 20 <= calls[k].resizeRatio /\ calls[k].resizeRatio <= 100
    /\ cpc \in {"loop", "single"} =>
          /\ 10 <= quality /\ quality <= 100
          /\ 20 <= resizeRatio /\ resizeRatio <= 100

C16_Witness ==
    /\ InLoopBranch /\ Len(calls) = 5
    /\ calls[5].quality = 10 /\ calls[5].resizeRatio = 20

\* C17: across successive attempts of the target-size loop quality drops by
\* exactly 15 and resizeRatio by exactly 0.15 per attempt while the floors
\* (10, 0.2) allow it, a parameter at its floor stays there, and no attempt
\* uses a larger value than the one before.
C17_StepsDownToFloor ==
    InLoopBranch =>
        \A k \in 1 .. (Len(calls) - 1) :
            /\ calls[k + 1].quality <= calls[k].quality
            /\ calls[k + 1].resizeRatio <= calls[k].resizeRatio
            /\ calls[k].quality - 15 >= 10 => calls[k + 1].quality = calls[k].quality - 15
            /\ calls[k].quality - 15 < 10 => calls[k + 1].quality = 10
            /\ calls[k].resizeRatio - 15 >= 20
                  => calls[k + 1].resizeRatio = calls[k].resizeRatio - 15
            /\ calls[k].resizeRatio - 15 < 20 => calls[k + 1].resizeRatio = 20

C17_Witness ==
    /\ InLoopBranch /\ Len(calls) = 5
    /\ [k \in 1 .. 5 |-> calls[k].quality] = <<70, 55, 40, 25, 10>>
    /\ [k \in 1 .. 5 |-> calls[k].resizeRatio] = <<80, 65, 50, 35, 20>>

\* the integer nearest to d * r / 100, a half going up
Nearest(d, r) == CHOOSE n \in 0 .. d : 200 * n - 100 <= 2 * d * r /\ 2 * d * r < 200 * n + 100

\* C18: without a target size compressPDF makes exactly one recompression
\* pass, at the fixed pair of the tier (low = (30, 0.5), high = (80, 1.0),
\* medium or anything else = (60, 0.75)), and each eligible image gets the
\* dimensions max(1, round(dimension * ratio)): a 1000x1000 image at tier
\* low becomes 500x500.
C18_SinglePassAtTier ==
    (InSingleBranch /\ AttemptsOver) =>
        /\ Len(calls) = 1
        /\ copts.quality = "low" => (calls[1].quality = 30 /\ calls[1].resizeRatio = 50)
        /\ copts.quality = "high" => (calls[1].quality = 80 /\ calls[1].resizeRatio = 100)
        /\ copts.quality \notin {"low", "high"}
              => (calls[1].quality = 60 /\ calls[1].resizeRatio = 75)
        /\ \A k \in DOMAIN doc.objects :
              (doc.objects[k].kind = "jpeg" /\ doc.objects[k].decodes) =>
                  /\ compressedBytes.objects[k].w
                        = Max(1, Nearest(doc.objects[k].w, calls[1].resizeRatio))
                  /\ compressedBytes.objects[k].h
                        = Max(1, Nearest(doc.objects[k].h, calls[1].resizeRatio))
                  /\ (copts.quality = "low" /\ doc.objects[k].w = 1000 /\ doc.objects[k].h = 1000)
                        => (compressedBytes.objects[k].w = 500
                            /\ compressedBytes.objects[k].h = 500)

C18_Witness ==
    /\ InSingleBranch /\ cpc = "done" /\ copts.quality = "low" /\ Len(calls) = 1
    /\ doc.objects = <<Jpeg(1000, 1000, TRUE)>>
    /\ cwritten.objects[1].w = 500 /\ cwritten.objects[1].h = 500

\* the request body carries a target size that reads as a positive number
\* of kilobytes
BodyHasTarget ==
    request.targetSize.defined /\ IsNumeral(request.targetSize.str)
    /\ NumeralValue(request.targetSize.str) > 0

\* C19: the compress route accepts an optional target size in kilobytes,
\* converts it to bytes (x 1024) and passes it to compressPDF, so that a
\* request carrying a target size runs the target-size loop.
C19_RoutePassesTarget ==
    (request.via = "route" /\ BodyHasTarget /\ cpc \in {"loop", "single", "write", "done"})
        => /\ targetSize = Num(1024 * NumeralValue(request.targetSize.str))
           /\ cpc # "single"
           /\ InLoopBranch

\* C20: in every recompression attempt an embedded object that is not a raw
\* image stream with the DCTDecode filter is left as it is: neither its
\* payload nor its Width and Height are changed.
C20_OtherObjectsUntouched ==
    calls # <<>> =>
        /\ Len(compressedBytes.objects) = Len(doc.objects)
        /\ \A k \in DOMAIN doc.objects :
              doc.objects[k].kind # "jpeg" =>
                  /\ compressedBytes.objects[k].payload = doc.objects[k].payload
                  /\ compressedBytes.objects[k].w = doc.objects[k].w
                  /\ compressedBytes.objects[k].h = doc.objects[k].h
                  /\ cwritten.exists => cwritten.objects[k] = doc.objects[k]

\* a PNG image next to a JPEG that was re-encoded
C20_Witness ==
    /\ cpc = "done" /\ Len(doc.objects) = 2
    /\ doc.objects[1].kind = "png" /\ doc.objects[2] = Jpeg(1000, 1000, TRUE)
    /\ cwritten.objects[1] = doc.objects[1]
    /\ cwritten.objects[2].payload.reencoded

\* an image the pass can re-encode, and one whose re-encoding fails
IsEligibleImage(o) == o.kind = "jpeg" /\ o.decodes
IsFailingImage(o) == o.kind = "jpeg" /\ ~o.decodes

\* C21: if re-encoding one eligible image fails inside an attempt, that
\* image keeps its payload and dimensions, every other eligible image of the
\* document is still re-encoded, and the attempt produces output bytes
\* instead of failing.
C21_ImageFailureSkipped ==
    (calls # <<>> /\ \E j \in DOMAIN doc.objects : IsFailingImage(doc.objects[j])) =>
        /\ \A k \in DOMAIN doc.objects :
              /\ IsFailingImage(doc.objects[k]) => compressedBytes.objects[k] = doc.objects[k]
              /\ IsEligibleImage(doc.objects[k]) =>
                    compressedBytes.objects[k].payload
                        = [reencoded |-> TRUE, q |-> LastCall.quality]
        /\ cresult # "threw"
        /\ cpc = "done" => (cresult = "returned" /\ cwritten.exists)

\* a failing image comes first and the image after it is re-encoded
C21_Witness ==
    /\ cpc = "done" /\ doc.objects = <<Jpeg(10, 7, FALSE), Jpeg(1000, 1000, TRUE)>>
    /\ cwritten.objects[1] = doc.objects[1]
    /\ cwritten.objects[2].payload.reencoded /\ cresult = "returned"

\* the document holds no image the pass can re-encode
NoEligibleImage == \A k \in DOMAIN doc.objects : ~IsEligibleImage(doc.objects[k])

C24_FailureWritesNothing ==
    /\ (~doc.parses /\ cpc \in {"write", "done"}) => (cpc = "done" /\ cresult = "threw")
    /\ cresult = "threw" => (cpc = "done" /\ ~cwritten.exists /\ calls = <<>>)
    /\ cwritten.exists => cresult = "returned"

C24_Witness ==
    ~doc.parses /\ cpc = "done" /\ cresult = "threw" /\ ~cwritten.exists
    /\ TruthyNumber(targetSize)

\* what one pass at the pair (q, r) makes of an object of the upload
PassOutput(o, q, r) ==
    IF IsEligibleImage(o)
    THEN [o EXCEPT !.w = Max(1, Nearest(o.w, r)), !.h = Max(1, Nearest(o.h, r)),
                   !.payload = [reencoded |-> TRUE, q |-> q]]
    ELSE o

\* C26: recompression attempts are independent: each attempt reloads the
\* uploaded bytes, so the output of attempt k is what one pass at that
\* attempt's (quality, resizeRatio) makes of the original document, whatever
\* the attempts before it shrank.
C26_AttemptsIndependent ==
    calls # <<>> =>
        compressedBytes.objects =
            [k \in DOMAIN doc.objects |->
                PassOutput(doc.objects[k], LastCall.quality, LastCall.resizeRatio)]

\* the second attempt scales the original 1000 pixels by 0.65
C26_Witness ==
    /\ InLoopBranch /\ Len(calls) = 2 /\ doc.objects = <<Jpeg(1000, 1000, TRUE)>>
    /\ compressedBytes.objects[1].w = 650 /\ compressedBytes.objects[1].h = 650

\* the target of the options reads as a positive number of kilobytes
OptionsHaveTarget ==
    copts.targetSize.defined /\ IsNumeral(copts.targetSize.str)
    /\ NumeralValue(copts.targetSize.str) > 0

\* C30: a supplied target size that parses to 0 or to no number ("0",
\* "abc") is treated as an absent target is: compressPDF makes a single pass
\* at the pair of the quality tier and never enters the 5-attempt loop; a
\* target that parses to a positive number enters the loop.
C30_ZeroOrNaNTargetIsAbsent ==
    cpc \in {"loop", "single", "write", "done"} =>
        /\ OptionsHaveTarget =>
              (InLoopBranch /\ targetSize = Num(1024 * NumeralValue(copts.targetSize.str)))
        /\ ~OptionsHaveTarget =>
              /\ InSingleBranch
              /\ Len(calls) <= 1
              /\ quality = TierPair(copts.quality).quality
              /\ resizeRatio = TierPair(copts.quality).resizeRatio
              /\ \A k \in DOMAIN calls :
                    /\ calls[k].quality = TierPair(copts.quality).quality
                    /\ calls[k].resizeRatio = TierPair(copts.quality).resizeRatio

\* a target of non-numeric text, and the single pass at the pair of tier low
C30_Witness ==
    /\ cpc = "done" /\ copts.targetSize = Str(<<"x">>) /\ copts.quality = "low"
    /\ Len(calls) = 1 /\ calls[1].quality = 30 /\ calls[1].resizeRatio = 50

\* ---------------------------------------------------------------------------
\* Upload routes: POST /merge and POST /protect, with mergePDFs and protectPDF
\* ---------------------------------------------------------------------------

\* the most files one request uploads
MaxUploads == 2

\* what an uploaded file holds: bytes that do not parse, a plain document, or
\* a document that is already encrypted
FileKinds ==
    { [parses |-> FALSE, encrypted |-> FALSE],
      [parses |-> TRUE, encrypted |-> FALSE],
      [parses |-> TRUE, encrypted |-> TRUE] }

\* multer stores each upload under its own generated name: the i-th file of
\* the request is at path i of the uploads directory
Uploaded(kinds) ==
    [i \in 1 .. Len(kinds) |->
        [path |-> i, parses |-> kinds[i].parses, encrypted |-> kinds[i].encrypted]]

UploadInputs ==
    UNION { { Uploaded(k) : k \in [1 .. n -> FileKinds] } : n \in 0 .. MaxUploads }

\* req.body.password / options.password: absent, empty, or a password
PasswordInputs == { Undefined, Str(<<>>), Str(<<"p">>) }

RouteRequests ==
    [route : {"merge", "protect"}, via : {"route", "service"}, password : PasswordInputs]

\* cleanupFiles: every file of the request that exists is unlinked
CleanupFiles(fs, dir) == dir \ { fs[i].path : i \in 1 .. Len(fs) }

\* variant: an empty password counts as given
PasswordRequiredWhenUndefined(p) == ~p.defined

\* protectPDF: if (!password) throw new Error('Password is required')
PasswordRequired(p) == ~Truthy(p)

\* where the service goes when it ends: back into the handler that awaits
\* it, or to the caller
AfterService == IF hreq.via = "route" THEN "settled" ELSE "done"

\* mergePDFs reads and parses the files in order and stops at the first one
\* that does not parse
FirstBad(fs) ==
    IF \E i \in 1 .. Len(fs) : ~fs[i].parses
    THEN CHOOSE i \in 1 .. Len(fs) :
            ~fs[i].parses /\ \A j \in 1 .. i - 1 : fs[j].parses
    ELSE 0

\* a request has arrived with its files stored (route), or the service is
\* called with its arguments (protectPDF takes one file)
RouteInit ==
    /\ file = [parses |-> FALSE, pageCount |-> 0]
    /\ options = [pages |-> Undefined, mode |-> "undefined"]
    /\ pc = "idle"
    /\ totalPages = 0
    /\ pageIndices = <<>>
    /\ result = "pending"
    /\ written = NoOutput
    /\ RotateIdle
    /\ CompressIdle
    /\ StoreIdle
    /\ UploaderIdle
    /\ hreq \in RouteRequests
    /\ reqFiles \in UploadInputs
    /\ hreq.route = "protect" => Len(reqFiles) <= 1
    /\ (hreq.route = "protect" /\ hreq.via = "service") => Len(reqFiles) = 1
    /\ hpc = IF hreq.via = "route" THEN "received" ELSE "called"
    /\ uploadsDir = { reqFiles[i].path : i \in 1 .. Len(reqFiles) }
    /\ response = 0
    /\ trace = <<>>
    /\ sresult = "pending"

\* /merge: fewer than two files is answered 400, otherwise mergePDFs is called
MergeValidate ==
    /\ hpc = "received" /\ hreq.route = "merge"
    /\ IF Len(reqFiles) < 2
       THEN /\ response' = 400
            /\ hpc' = "sent"
            /\ trace' = trace
       ELSE /\ response' = response
            /\ hpc' = "called"
            /\ trace' = Append(trace, "service")
    /\ UNCHANGED <<hreq, reqFiles, uploadsDir, sresult>>
    /\ UNCHANGED <<splitVars, rotateVars, compressVars, storeVars, uploaderVars>>

\* /protect: no file or no password is answered 400, otherwise protectPDF is
\* called
ProtectValidate ==
    /\ hpc = "received" /\ hreq.route = "protect"
    /\ IF Len(reqFiles) = 0 \/ ~Truthy(hreq.password)
       THEN /\ response' = 400
            /\ hpc' = "sent"
            /\ trace' = trace
       ELSE /\ response' = response
            /\ hpc' = "called"
            /\ trace' = Append(trace, "service")
    /\ UNCHANGED <<hreq, reqFiles, uploadsDir, sresult>>
    /\ UNCHANGED <<splitVars, rotateVars, compressVars, storeVars, uploaderVars>>

\* mergePDFs: read and parse each file, then save and write the output
MergePDFs ==
    /\ hpc = "called" /\ hreq.route = "merge"
    /\ LET bad == FirstBad(reqFiles)
           reads == IF bad = 0 THEN Len(reqFiles) ELSE bad
           read == [i \in 1 .. reads |-> "read"]
       IN  IF bad # 0
           THEN /\ trace' = trace \o read
                /\ sresult' = "threw"
           ELSE /\ trace' = (trace \o read) \o <<"write">>
                /\ sresult' = "returned"
    /\ hpc' = AfterService
    /\ UNCHANGED <<hreq, reqFiles, uploadsDir, response>>
    /\ UNCHANGED <<splitVars, rotateVars, compressVars, storeVars, uploaderVars>>

\* protectPDF, entry: the password is checked first
ProtectEnter ==
    /\ hpc = "called" /\ hreq.route = "protect"
    /\ IF PasswordRequired(hreq.password)
       THEN /\ sresult' = "threw"
            /\ hpc' = AfterService
       ELSE /\ sresult' = sresult
            /\ hpc' = "reading"
    /\ UNCHANGED <<hreq, reqFiles, uploadsDir, response, trace>>
    /\ UNCHANGED <<splitVars, rotateVars, compressVars, storeVars, uploaderVars>>

\* protectPDF, body: read the file, parse it, refuse an encrypted document,
\* save with the password and write the output
ProtectProcess ==
    /\ hpc = "reading"
    /\ LET f == reqFiles[1]
       IN  IF ~f.parses \/ f.encrypted
           THEN /\ trace' = Append(trace, "read")
                /\ sresult' = "threw"
           ELSE /\ trace' = trace \o <<"read", "write">>
                /\ sresult' = "returned"
    /\ hpc' = AfterService
    /\ UNCHANGED <<hreq, reqFiles, uploadsDir, response>>
    /\ UNCHANGED <<splitVars, rotateVars, compressVars, storeVars, uploaderVars>>

\* /merge after the service: cleanupFiles, then 200 or (catch) 500
MergeRespond ==
    /\ hpc = "settled" /\ hreq.route = "merge"
    /\ uploadsDir' = CleanupFiles(reqFiles, uploadsDir)
    /\ response' = IF sresult = "returned" THEN 200 ELSE 500
    /\ hpc' = "sent"
    /\ UNCHANGED <<hreq, reqFiles, trace, sresult>>
    /\ UNCHANGED <<splitVars, rotateVars, compressVars, storeVars, uploaderVars>>

\* /protect after the service: cleanupFiles, then 200 or (catch) 500
ProtectRespond ==
    /\ hpc = "settled" /\ hreq.route = "protect"
    /\ uploadsDir' = CleanupFiles(reqFiles, uploadsDir)
    /\ response' = IF sresult = "returned" THEN 200 ELSE 500
    /\ hpc' = "sent"
    /\ UNCHANGED <<hreq, reqFiles, trace, sresult>>
    /\ UNCHANGED <<splitVars, rotateVars, compressVars, storeVars, uploaderVars>>

RouteNext ==
    \/ MergeValidate
    \/ ProtectValidate
    \/ MergePDFs
    \/ ProtectEnter
    \/ ProtectProcess
    \/ MergeRespond
    \/ ProtectRespond

RouteSpec == RouteInit /\ [][RouteNext]_vars

RouteTypeOK ==
    /\ hreq \in RouteRequests
    /\ reqFiles \in UploadInputs
    /\ hpc \in {"received", "called", "reading", "settled", "sent", "done"}
    /\ uploadsDir \subseteq 1 .. MaxUploads
    /\ response \in {0, 200, 400, 500}
    /\ sresult \in {"pending", "returned", "threw"}

\* ---------------------------------------------------------------------------
\* Claims about the upload routes
\* ---------------------------------------------------------------------------

\* the service has read the source file / written an output file
HasRead == \E i \in 1 .. Len(trace) : trace[i] = "read"

HasWritten == \E i \in 1 .. Len(trace) : trace[i] = "write"

ServiceCalled == \E i \in 1 .. Len(trace) : trace[i] = "service"

\* C23: a protect request with an absent or empty password is rejected at
\* once: protectPDF raises without having read the source file or written an
\* output, and the /protect route answers 400 without calling the service.
C23_NoPasswordRejected ==
    (hreq.route = "protect" /\ ~Truthy(hreq.password))
        => /\ hpc # "reading"
           /\ ~HasRead /\ ~HasWritten
           /\ (hreq.via = "service" /\ hpc = "done") => sresult = "threw"
           /\ (hreq.via = "route" /\ hpc = "sent")
                 => response = 400 /\ ~ServiceCalled /\ sresult = "pending"

C23_Witness ==
    /\ hreq.route = "protect" /\ hreq.via = "service"
    /\ hreq.password = Str(<<>>)
    /\ reqFiles[1].parses /\ ~reqFiles[1].encrypted
    /\ hpc = "done" /\ sresult = "threw" /\ trace = <<>>

\* C28: whenever an upload route has sent its response (200, 500 after a
\* service failure, or 400 after a validation rejection), the uploaded
\* temporary files of the request are gone from the uploads directory.
C28_UploadsDeletedOnResponse ==
    (hreq.via = "route" /\ response # 0) => uploadsDir = {}

\* ---------------------------------------------------------------------------
\* The output directory: saveOutput, the staging of compressPDF, and
\* GET /download/:fileId, under concurrent requests
\* ---------------------------------------------------------------------------

\* the number of concurrent requests that produce an output
NumRequests == 2

\* the length of a generated identifier (a uuid has 36 characters, all
\* identifiers have the same length)
IdLen == 2

HexDigits == {"a", "b"}

\* the sequences over a set of characters of exactly / at most n characters
SeqsOfLen(chars, n) == [1 .. n -> chars]

SeqsUpTo(chars, n) == UNION { SeqsOfLen(chars, k) : k \in 1 .. n }

\* what uuidv4 can return
Ids == SeqsOfLen(HexDigits, IdLen)

\* the original file names of the requests, without extension
OriginalNames == { <<"a">>, <<"b">> }

\* an operation that ends in saveOutput (with its suffix), or compressPDF
Operations == {"rotate", "compress"}

Suffix(op) == IF op = "compress" THEN "_compressed" ELSE "_rotated"

\* `${baseName}${suffix}.pdf`
Filename(name, op) == name \o <<Suffix(op), ".pdf">>

\* variant: the output is staged under its file name alone
OutputPathByName(fileId, filename) == filename

\* path.join(outputDir, `${fileId}-${filename}`): the name of the entry in
\* the output directory
OutputPath(fileId, filename) == (fileId \o <<"-">>) \o filename

\* f.startsWith(fileId)
StartsWith(f, prefix) ==
    Len(prefix) <= Len(f) /\ SubSeq(f, 1, Len(prefix)) = prefix

\* the :fileId parameter of a download request
FileIdParams == SeqsUpTo(HexDigits, IdLen)

\* the requests have arrived; nothing is generated or written yet
StoreInit ==
    /\ file = [parses |-> FALSE, pageCount |-> 0]
    /\ options = [pages |-> Undefined, mode |-> "undefined"]
    /\ pc = "idle"
    /\ totalPages = 0
    /\ pageIndices = <<>>
    /\ result = "pending"
    /\ written = NoOutput
    /\ RotateIdle
    /\ CompressIdle
    /\ RouteIdle
    /\ UploaderIdle
    /\ outputDir = {}
    /\ issued = {}
    /\ \E ops \in [1 .. NumRequests -> Operations],
          names \in [1 .. NumRequests -> OriginalNames] :
          jobs = [j \in 1 .. NumRequests |->
                     [op |-> ops[j], name |-> names[j], pc |-> "start",
                      fileId |-> <<>>, path |-> <<>>]]
    /\ download = [pc |-> "idle"]

\* saveOutput: a new identifier, the path built from it, and the write, in
\* one synchronous call
SaveOutput(j) ==
    /\ jobs[j].pc = "start" /\ jobs[j].op # "compress"
    /\ \E fileId \in Ids \ issued :
          LET outputPath == OutputPath(fileId, Filename(jobs[j].name, jobs[j].op))
          IN  /\ issued' = issued \cup {fileId}
              /\ outputDir' = outputDir \cup {outputPath}
              /\ jobs' = [jobs EXCEPT ![j].pc = "written", ![j].fileId = fileId,
                                      ![j].path = outputPath]
    /\ UNCHANGED download
    /\ UNCHANGED <<splitVars, rotateVars, compressVars, routeVars, uploaderVars>>

\* compressPDF, lines 121-126: the identifier and the path are fixed before
\* the attempts are awaited
CompressStage(j) ==
    /\ jobs[j].pc = "start" /\ jobs[j].op = "compress"
    /\ \E fileId \in Ids \ issued :
          /\ issued' = issued \cup {fileId}
          /\ jobs' = [jobs EXCEPT ![j].pc = "staged", ![j].fileId = fileId,
                                  ![j].path = OutputPath(fileId, Filename(jobs[j].name, jobs[j].op))]
    /\ UNCHANGED <<outputDir, download>>
    /\ UNCHANGED <<splitVars, rotateVars, compressVars, routeVars, uploaderVars>>

\* compressPDF, line 233: the attempts are over and the output is written,
\* or an attempt raised and nothing is written
CompressStore(j) ==
    /\ jobs[j].pc = "staged"
    /\ \E raised \in BOOLEAN :
          IF raised
          THEN /\ jobs' = [jobs EXCEPT ![j].pc = "failed"]
               /\ outputDir' = outputDir
          ELSE /\ jobs' = [jobs EXCEPT ![j].pc = "written"]
               /\ outputDir' = outputDir \cup {jobs[j].path}
    /\ UNCHANGED <<issued, download>>
    /\ UNCHANGED <<splitVars, rotateVars, compressVars, routeVars, uploaderVars>>

\* GET /download/:fileId: the directory is listed, the first entry that
\* starts with the parameter is served (the order of readdirSync is the
\* file system's), and 404 is answered when there is none
Download ==
    /\ download.pc = "idle"
    /\ \E fileId \in FileIdParams :
          LET matching == { f \in outputDir : StartsWith(f, fileId) }
          IN  IF matching = {}
              THEN download' = [pc |-> "done", fileId |-> fileId, listing |-> outputDir,
                                status |-> 404, served |-> <<>>]
              ELSE \E matchingFile \in matching :
                      download' = [pc |-> "done", fileId |-> fileId, listing |-> outputDir,
                                   status |-> 200, served |-> matchingFile]
    /\ UNCHANGED <<outputDir, issued, jobs>>
    /\ UNCHANGED <<splitVars, rotateVars, compressVars, routeVars, uploaderVars>>

StoreNext ==
    \/ \E j \in 1 .. NumRequests : SaveOutput(j)
    \/ \E j \in 1 .. NumRequests : CompressStage(j)
    \/ \E j \in 1 .. NumRequests : CompressStore(j)
    \/ Download

StoreSpec == StoreInit /\ [][StoreNext]_vars

StoreTypeOK ==
    /\ issued \subseteq Ids
    /\ DOMAIN jobs = 1 .. NumRequests
    /\ \A j \in 1 .. NumRequests :
          jobs[j].pc \in {"start", "staged", "written", "failed"}
    /\ download.pc \in {"idle", "done"}
    /\ \A f \in outputDir : \E j \in 1 .. NumRequests : jobs[j].path = f

\* ---------------------------------------------------------------------------
\* Claims about the output directory
\* ---------------------------------------------------------------------------

\* request j has fixed the path of its output
Staged(j) == jobs[j].pc \in {"staged", "written", "failed"}

\* C25: under any interleaving of concurrent requests each one stages its
\* output under an identifier of its own, so no two requests have the same
\* output path, even when their original file names are identical.
C25_OutputPathsDistinct ==
    \A j, k \in 1 .. NumRequests :
        (j # k /\ Staged(j) /\ Staged(k))
            => /\ jobs[j].fileId # jobs[k].fileId
               /\ jobs[j].path # jobs[k].path

C25_Witness ==
    /\ jobs[1].pc = "written" /\ jobs[2].pc = "written"
    /\ jobs[1].op = "compress" /\ jobs[2].op = "compress"
    /\ jobs[1].name = jobs[2].name
    /\ jobs[1].path \in outputDir /\ jobs[2].path \in outputDir

\* the output files of the listing whose generated identifier is the
\* requested one
OutputsOfId(fileId, listing) ==
    { jobs[j].path : j \in { i \in 1 .. NumRequests :
                               jobs[i].fileId = fileId /\ jobs[i].path \in listing } }

\* C27: a download serves only the output file whose generated identifier
\* equals the requested fileId; a request whose fileId is not the whole
\* identifier of an existing output file is answered 404 and gets no file.
C27_DownloadMatchesWholeId ==
    download.pc = "done"
        => LET wanted == OutputsOfId(download.fileId, download.listing)
           IN  IF wanted = {}
               THEN download.status = 404 /\ download.served = <<>>
               ELSE download.status = 200 /\ download.served \in wanted

\* ---------------------------------------------------------------------------
\* FileUploader (browser side): addFiles, removeFile, clearFiles
\* ---------------------------------------------------------------------------

\* the largest maxFiles option, and the longest list handed to addFiles
MaxSlots == 2

MaxBatch == 3

\* MIME types, as sequences of their parts
PdfType == <<"application", "/", "pdf">>

PngType == <<"image", "/", "png">>

ImagePattern == <<"image", "/", "*">>

\* the File objects a user can drop or select
FilePool ==
    { [name |-> "a.pdf", type |-> PdfType],
      [name |-> "b.pdf", type |-> PdfType],
      [name |-> "c.png", type |-> PngType] }

FileLists == UNION { [1 .. n -> FilePool] : n \in 0 .. MaxBatch }

\* options.acceptedTypes || ['application/pdf']: an empty array is kept
AcceptedInputs == { <<PdfType>>, <<ImagePattern>>, <<PdfType, ImagePattern>>, <<>> }

\* options.maxFiles || 20, for the limits within the bound
MaxFilesInputs == 1 .. MaxSlots

\* type.includes('*')
IncludesStar(type) == \E i \in 1 .. Len(type) : type[i] = "*"

\* type.replace('*', ''): the first '*' is taken out
ReplaceStar(type) ==
    IF IncludesStar(type)
    THEN LET i == CHOOSE k \in 1 .. Len(type) :
                     type[k] = "*" /\ \A j \in 1 .. k - 1 : type[j] # "*"
         IN  SubSeq(type, 1, i - 1) \o SubSeq(type, i + 1, Len(type))
    ELSE type

\* the test handed to acceptedTypes.some
TypeMatches(fileType, type) ==
    IF IncludesStar(type)
    THEN StartsWith(fileType, ReplaceStar(type))
    ELSE fileType = type

\* the filter of addFiles: a file is dropped when the list of accepted types
\* is not empty and none of them matches
PassesFilter(f, accepted) ==
    ~ (Len(accepted) > 0
         /\ ~ \E i \in 1 .. Len(accepted) : TypeMatches(f.type, accepted[i]))

NewFiles(fileList, accepted) ==
    LET Test(f) == PassesFilter(f, accepted)
    IN  SelectSeq(fileList, Test)

\* Array.prototype.slice(0, end), a negative end counting from the back
Slice(s, end) ==
    LET stop == IF end < 0 THEN Max(Len(s) + end, 0) ELSE Min(end, Len(s))
    IN  SubSeq(s, 1, stop)

\* variant: the batch is cut to maxFiles, not to what is left of it
FilesToAddUpToMax(newFiles, current, limit) == Slice(newFiles, limit)

\* remainingSlots = maxFiles - files.length; newFiles.slice(0, remainingSlots)
FilesToAdd(newFiles, current, limit) == Slice(newFiles, limit - Len(current))

\* Array.prototype.splice(index, 1) with a 0-based index, a negative one
\* counting from the back
Splice(s, index) ==
    LET start == IF index < 0 THEN Max(Len(s) + index, 0) ELSE Min(index, Len(s))
    IN  IF start < Len(s)
        THEN SubSeq(s, 1, start) \o SubSeq(s, start + 2, Len(s))
        ELSE s

\* new FileUploader(dropZoneId, options)
UploaderInit ==
    /\ file = [parses |-> FALSE, pageCount |-> 0]
    /\ options = [pages |-> Undefined, mode |-> "undefined"]
    /\ pc = "idle"
    /\ totalPages = 0
    /\ pageIndices = <<>>
    /\ result = "pending"
    /\ written = NoOutput
    /\ RotateIdle
    /\ CompressIdle
    /\ RouteIdle
    /\ StoreIdle
    /\ files = <<>>
    /\ maxFiles \in MaxFilesInputs
    /\ acceptedTypes \in AcceptedInputs
    /\ lastOp = [op |-> "new"]

AddFiles(fileList) ==
    /\ lastOp.op # "none"
    /\ LET newFiles == NewFiles(fileList, acceptedTypes)
           filesToAdd == FilesToAdd(newFiles, files, maxFiles)
       IN  files' = files \o filesToAdd
    /\ lastOp' = [op |-> "addFiles", before |-> files, fileList |-> fileList]
    /\ UNCHANGED <<maxFiles, acceptedTypes>>
    /\ UNCHANGED <<splitVars, rotateVars, compressVars, routeVars, storeVars>>

RemoveFile(index) ==
    /\ lastOp.op # "none"
    /\ files' = Splice(files, index)
    /\ lastOp' = [op |-> "removeFile", before |-> files, index |-> index]
    /\ UNCHANGED <<maxFiles, acceptedTypes>>
    /\ UNCHANGED <<splitVars, rotateVars, compressVars, routeVars, storeVars>>

ClearFiles ==
    /\ lastOp.op # "none"
    /\ files' = <<>>
    /\ lastOp' = [op |-> "clearFiles", before |-> files]
    /\ UNCHANGED <<maxFiles, acceptedTypes>>
    /\ UNCHANGED <<splitVars, rotateVars, compressVars, routeVars, storeVars>>

UploaderNext ==
    \/ \E fileList \in FileLists : AddFiles(fileList)
    \/ \E index \in (0 - MaxSlots) .. MaxSlots : RemoveFile(index)
    \/ ClearFiles

UploaderSpec == UploaderInit /\ [][UploaderNext]_vars

UploaderTypeOK ==
    /\ files \in Seq(FilePool)
    /\ maxFiles \in MaxFilesInputs
    /\ acceptedTypes \in AcceptedInputs
    /\ lastOp.op \in {"new", "addFiles", "removeFile", "clearFiles"}

\* ---------------------------------------------------------------------------
\* Claims about the FileUploader
\* ---------------------------------------------------------------------------

\* a type is accepted when nothing is required, when it is one of the
\* accepted types, or when it falls under an accepted pattern `prefix*`
AcceptedType(t) ==
    \/ acceptedTypes = <<>>
    \/ \E i \in 1 .. Len(acceptedTypes) :
          LET a == acceptedTypes[i]
          IN  \/ a = t
              \/ /\ a[Len(a)] = "*"
                 /\ Len(t) >= Len(a) - 1
                 /\ \A k \in 1 .. Len(a) - 1 : t[k] = a[k]

\* the files of a list that are of an accepted type, in their order
AcceptedOf(fileList) ==
    LET Accepted(f) == AcceptedType(f.type)
    IN  SelectSeq(fileList, Accepted)

\* C29: after any sequence of addFiles, removeFile and clearFiles calls the
\* uploader holds at most maxFiles files; addFiles keeps the files it had, in
\* order, and appends the files of an accepted type of the new batch, cut to
\* the slots that were left.
C29_UploaderWithinLimit ==
    /\ lastOp.op # "none" => Len(files) <= maxFiles
    /\ lastOp.op = "addFiles" =>
          LET before == lastOp.before
              remaining == maxFiles - Len(before)
              accepted == AcceptedOf(lastOp.fileList)
              added == SubSeq(files, Len(before) + 1, Len(files))
          IN  /\ Len(files) >= Len(before)
              /\ SubSeq(files, 1, Len(before)) = before
              /\ \A i \in 1 .. Len(added) : AcceptedType(added[i].type)
              /\ added = SubSeq(accepted, 1, Min(remaining, Len(accepted)))

C29_Witness ==
    /\ lastOp.op = "addFiles"
    /\ acceptedTypes = <<PdfType>>
    /\ Len(lastOp.before) = 1
    /\ maxFiles = 2
    /\ lastOp.fileList = <<[name |-> "c.png", type |-> PngType],
                           [name |-> "b.pdf", type |-> PdfType],
                           [name |-> "a.pdf", type |-> PdfType]>>
    /\ files = <<[name |-> "a.pdf", type |-> PdfType], [name |-> "b.pdf", type |-> PdfType]>>

====
